---- MODULE Spec2Model ----
(***************************************************************************)
(* Model of Waveform.c / Waveform.h (OpenScan NI-DAQ galvo waveforms).     *)
(*                                                                         *)
(* A C double is modelled as an exact rational <<n, d>> (d > 0, lowest     *)
(* terms) extended with the IEEE-754 non-finite values: <<1, 0>> is +Inf,  *)
(* <<-1, 0>> is -Inf and <<0, 0>> is NaN.  Rounding is not modelled: every *)
(* statement about sample values is a statement in exact arithmetic.       *)
(* A destination buffer is modelled by the sequence of stores the call     *)
(* performs on it, in program order, each store a pair <<index, value>>.   *)
(***************************************************************************)
EXTENDS Integers, Sequences, FiniteSets

VARIABLES parameters, lineClock, lineClockFLIM, frameClockFLIM,
          xyWaveformFrame, frameStatus,
          axisArgs, waveform, splineArgs, result

vars == <<parameters, lineClock, lineClockFLIM, frameClockFLIM,
          xyWaveformFrame, frameStatus, axisArgs, waveform, splineArgs, result>>

(***************************************************************************)
(* Bounds of the model.                                                    *)
(***************************************************************************)
MaxWidth == 2
MaxHeight == 2
MaxUndershoot == 1
MaxScanLen == 4
MaxRetraceLen == 4
MaxSplineLen == 4

\* Waveform.h sets X_RETRACE_LEN = 128 and Y_RETRACE_LEN = 12; the retrace
\* lengths are scaled down here so that sample values stay within the
\* integer range of the model checker.
X_RETRACE_LEN == 3
Y_RETRACE_LEN == 2

(***************************************************************************)
(* double arithmetic (exact, with IEEE-754 non-finite values)              *)
(***************************************************************************)
Abs(x) == IF x < 0 THEN -x ELSE x

Sign(x) == IF x > 0 THEN 1 ELSE IF x < 0 THEN -1 ELSE 0

RECURSIVE Gcd(_, _)
Gcd(a, b) == IF b = 0 THEN a ELSE Gcd(b, a % b)

NaN == <<0, 0>>

IsFinite(a) == a[2] # 0

IsNaN(a) == a = NaN

\* the double with value n / d
Norm(n, d) ==
    IF d = 0 THEN <<Sign(n), 0>>
    ELSE LET g == Gcd(Abs(n), Abs(d))
             s == IF d < 0 THEN -1 ELSE 1
         IN  <<s * (n \div g), s * (d \div g)>>

\* conversion of an integer to double
D(k) == <<k, 1>>

Neg(a) == <<-a[1], a[2]>>

\* a + b
Add(a, b) ==
    IF IsNaN(a) \/ IsNaN(b) THEN NaN
    ELSE IF ~IsFinite(a) /\ ~IsFinite(b) THEN (IF a = b THEN a ELSE NaN)
    ELSE IF ~IsFinite(a) THEN a
    ELSE IF ~IsFinite(b) THEN b
    ELSE LET g == Gcd(a[2], b[2])
         IN  Norm(a[1] * (b[2] \div g) + b[1] * (a[2] \div g), a[2] * (b[2] \div g))

\* a - b
Sub(a, b) == Add(a, Neg(b))

\* a * b
Mul(a, b) ==
    IF IsNaN(a) \/ IsNaN(b) THEN NaN
    ELSE IF ~IsFinite(a) \/ ~IsFinite(b)
         THEN <<Sign(a[1]) * Sign(b[1]), 0>>
    ELSE LET g1 == Gcd(Abs(a[1]), b[2])
             g2 == Gcd(Abs(b[1]), a[2])
         IN  Norm((a[1] \div g1) * (b[1] \div g2), (a[2] \div g2) * (b[2] \div g1))

\* a / b; a zero divisor is +0.0 (every divisor of the program is converted
\* from an integer), so x / 0 is +Inf, -Inf or NaN by the sign of x
Div(a, b) ==
    IF IsNaN(a) \/ IsNaN(b) THEN NaN
    ELSE IF ~IsFinite(b) THEN (IF IsFinite(a) THEN D(0) ELSE NaN)
    ELSE IF b[1] = 0 THEN <<Sign(a[1]), 0>>
    ELSE IF ~IsFinite(a) THEN <<Sign(a[1]) * Sign(b[1]), 0>>
    ELSE Mul(a, <<Sign(b[1]) * b[2], Abs(b[1])>>)

\* conversion of a non-negative finite double to uint32_t (truncation)
TruncU32(a) == a[1] \div a[2]

(***************************************************************************)
(* Destination buffers: the stores a call performed                        *)
(***************************************************************************)
\* indices the call stored to
Written(log) == {log[k][1] : k \in 1..Len(log)}

\* number of stores to index idx
WriteCount(log, idx) == Cardinality({k \in 1..Len(log) : log[k][1] = idx})

\* content of index idx after the call (the last store to it)
ValueAt(log, idx) ==
    LET ks == {k \in 1..Len(log) : log[k][1] = idx}
        last == CHOOSE k \in ks : \A m \in ks : m <= k
    IN  log[last][2]

(***************************************************************************)
(* SplineInterpolate                                                       *)
(***************************************************************************)
\* the quadratic coefficient with 2.0 / (n*n) in place of 3.0 / (n*n)
SplineCoeffs_WrongFactor(n, yFirst, yLast, slopeFirst, slopeLast) ==
    LET c0 == Sub(Add(Add(Div(slopeFirst, D(n * n)),
                          Mul(Div(D(2), D(n * n * n)), yFirst)),
                      Div(slopeLast, D(n * n))),
                  Mul(Div(D(2), D(n * n * n)), yLast))
        c1 == Sub(Sub(Sub(Mul(Div(D(2), D(n * n)), yLast),
                          Div(slopeLast, D(n))),
                      Mul(Div(D(2), D(n)), slopeFirst)),
                  Mul(Div(D(3), D(n * n)), yFirst))
    IN  <<c0, c1, slopeFirst, yFirst>>

\* the coefficients c[0..3] of the cubic, as <<c0, c1, c2, c3>>
SplineCoeffs(n, yFirst, yLast, slopeFirst, slopeLast) ==
    LET c0 == Sub(Add(Add(Div(slopeFirst, D(n * n)),
                          Mul(Div(D(2), D(n * n * n)), yFirst)),
                      Div(slopeLast, D(n * n))),
                  Mul(Div(D(2), D(n * n * n)), yLast))
        c1 == Sub(Sub(Sub(Mul(Div(D(3), D(n * n)), yLast),
                          Div(slopeLast, D(n))),
                      Mul(Div(D(2), D(n)), slopeFirst)),
                  Mul(Div(D(3), D(n * n)), yFirst))
    IN  <<c0, c1, slopeFirst, yFirst>>

\* c[0]*x*x*x + c[1]*x*x + c[2]*x + c[3]
SplineValue(c, x) ==
    Add(Add(Add(Mul(Mul(Mul(c[1], D(x)), D(x)), D(x)),
                Mul(Mul(c[2], D(x)), D(x))),
            Mul(c[3], D(x))),
        c[4])

\* the stores to result[]
SplineInterpolate(n, yFirst, yLast, slopeFirst, slopeLast) ==
    LET c == SplineCoeffs(n, yFirst, yLast, slopeFirst, slopeLast)
    IN  [k \in 1..n |-> <<k - 1, SplineValue(c, k - 1)>>]

(***************************************************************************)
(* GenerateGalvoWaveform                                                   *)
(***************************************************************************)
\* stores through the pointer (buffer + offset)
Shift(log, offset) == [k \in 1..Len(log) |-> <<log[k][1] + offset, log[k][2]>>]

\* step = scanAmplitude / (effectiveScanLen - 1)
ScanStep(effectiveScanLen, scanStart, scanEnd) ==
    Div(Sub(scanEnd, scanStart), D(effectiveScanLen - 1))

\* undershootStart = scanStart - undershootLen * step
UndershootStart(effectiveScanLen, undershootLen, scanStart, scanEnd) ==
    Sub(scanStart, Mul(D(undershootLen), ScanStep(effectiveScanLen, scanStart, scanEnd)))

\* the ramp divided by effectiveScanLen in place of effectiveScanLen - 1
LinearSample_OffByOne(i, effectiveScanLen, undershootLen, scanStart, scanEnd) ==
    Add(UndershootStart(effectiveScanLen, undershootLen, scanStart, scanEnd),
        Mul(Sub(scanEnd, scanStart), Div(D(i), D(effectiveScanLen))))

\* waveform[i] of the linear scan curve
LinearSample(i, effectiveScanLen, undershootLen, scanStart, scanEnd) ==
    Add(UndershootStart(effectiveScanLen, undershootLen, scanStart, scanEnd),
        Mul(Sub(scanEnd, scanStart), Div(D(i), D(effectiveScanLen - 1))))

\* the retrace aimed at scanStart and entered with zero slope
GenerateGalvoWaveform_RetraceToScanStart(effectiveScanLen, retraceLen, undershootLen, scanStart, scanEnd) ==
    LET step == ScanStep(effectiveScanLen, scanStart, scanEnd)
        linearLen == undershootLen + effectiveScanLen
        linear == [k \in 1..linearLen |->
                     <<k - 1, LinearSample(k - 1, effectiveScanLen, undershootLen,
                                           scanStart, scanEnd)>>]
    IN  IF retraceLen > 0
        THEN linear \o Shift(SplineInterpolate(retraceLen, scanEnd, scanStart,
                                               D(0), step), linearLen)
        ELSE linear

\* the stores to waveform[]
GenerateGalvoWaveform(effectiveScanLen, retraceLen, undershootLen, scanStart, scanEnd) ==
    LET step == ScanStep(effectiveScanLen, scanStart, scanEnd)
        linearLen == undershootLen + effectiveScanLen
        undershootStart == UndershootStart(effectiveScanLen, undershootLen, scanStart, scanEnd)
        linear == [k \in 1..linearLen |->
                     <<k - 1, LinearSample(k - 1, effectiveScanLen, undershootLen,
                                           scanStart, scanEnd)>>]
    IN  IF retraceLen > 0
        THEN linear \o Shift(SplineInterpolate(retraceLen, scanEnd, undershootStart,
                                               step, step), linearLen)
        ELSE linear

(***************************************************************************)
(* Clock patterns                                                          *)
(***************************************************************************)
\* x_length = lineDelay + width + X_RETRACE_LEN
LineLength(p) == p.undershoot + p.width + X_RETRACE_LEN

\* the window closed one sample late
LineClockValue_LateEnd(i, lineDelay, width) ==
    IF (i >= lineDelay) /\ (i <= lineDelay + width) THEN 1 ELSE 0

LineClockValue(i, lineDelay, width) ==
    IF (i >= lineDelay) /\ (i < lineDelay + width) THEN 1 ELSE 0

\* the tail started one sample late
FLIMLineClockValue_LateStart(i, lineDelay, width) ==
    IF i > lineDelay + width THEN 1 ELSE 0

FLIMLineClockValue(i, lineDelay, width) ==
    IF i >= lineDelay + width THEN 1 ELSE 0

\* the marker raised on every line
FLIMFrameClockValue_EveryLine(i, j, lineDelay, width, height) ==
    IF i > lineDelay + width THEN 1 ELSE 0

FLIMFrameClockValue(i, j, lineDelay, width, height) ==
    IF (j = height - 1) /\ (i > lineDelay + width) THEN 1 ELSE 0

\* the stores of the loop nest  for j < height: for i < x_length
GenerateLineClockStores(p) ==
    LET x_length == LineLength(p)
    IN  [k \in 1..(p.height * x_length) |->
           LET j == (k - 1) \div x_length
               i == (k - 1) % x_length
           IN  <<i + j * x_length, LineClockValue(i, p.undershoot, p.width)>>]

GenerateFLIMLineClockStores(p) ==
    LET x_length == LineLength(p)
    IN  [k \in 1..(p.height * x_length) |->
           LET j == (k - 1) \div x_length
               i == (k - 1) % x_length
           IN  <<i + j * x_length, FLIMLineClockValue(i, p.undershoot, p.width)>>]

GenerateFLIMFrameClockStores(p) ==
    LET x_length == LineLength(p)
    IN  [k \in 1..(p.height * x_length) |->
           LET j == (k - 1) \div x_length
               i == (k - 1) % x_length
           IN  <<i + j * x_length,
                 FLIMFrameClockValue(i, j, p.undershoot, p.width, p.height)>>]

(***************************************************************************)
(* Sizes                                                                   *)
(***************************************************************************)
GetClockWaveformSize(p) ==
    LET elementsPerLine == p.undershoot + p.width + X_RETRACE_LEN
    IN  elementsPerLine * p.height

\* the Y retrace lines left out
GetScannerWaveformSize_NoYRetrace(p) ==
    LET elementsPerLine == p.undershoot + p.width + X_RETRACE_LEN
    IN  elementsPerLine * p.height

GetScannerWaveformSize(p) ==
    LET elementsPerLine == p.undershoot + p.width + X_RETRACE_LEN
        yLen == p.height + Y_RETRACE_LEN
    IN  elementsPerLine * yLen

(***************************************************************************)
(* GenerateGalvoWaveformFrame                                              *)
(***************************************************************************)
\* uint32_t zoom = parameters->zoom  (the double is truncated)
ZoomU32(p) == TruncU32(p.zoom)

\* zoom * resolution, a uint32_t product
ZoomTimesResolution(p) == ZoomU32(p) * p.resolution

\* a / b on uint32_t; division by zero is undefined, ub is what it yields
UDiv(a, b, ub) == IF b = 0 THEN ub ELSE a \div b

\* xStart, yStart = (-0.5 * resolution + offset) / (zoom * resolution)
RoiStart(p, offset) ==
    Div(Add(Mul(<<-1, 2>>, D(p.resolution)), D(offset)), D(ZoomTimesResolution(p)))

\* xEnd, yEnd = start + extent / (zoom * resolution); the quotient is integral
RoiEnd(p, offset, extent, ub) ==
    Add(RoiStart(p, offset), D(UDiv(extent, ZoomTimesResolution(p), ub)))

\* offsetXinDegree, offsetYinDegree = galvoOffset / 3.0 of the truncated offset
OffsetInDegree(galvoOffset) == Div(D(TruncU32(galvoOffset)), D(3))

\* xWaveform, yWaveform as sequences of samples
XWaveform(p, ub) ==
    LET log == GenerateGalvoWaveform(p.width, X_RETRACE_LEN, p.undershoot,
                                     RoiStart(p, p.xOffset),
                                     RoiEnd(p, p.xOffset, p.width, ub))
    IN  [i \in 0..(Len(log) - 1) |-> ValueAt(log, i)]

YWaveform(p, ub) ==
    LET log == GenerateGalvoWaveform(p.height, Y_RETRACE_LEN, 0,
                                     RoiStart(p, p.yOffset),
                                     RoiEnd(p, p.yOffset, p.height, ub))
    IN  [j \in 0..(Len(log) - 1) |-> ValueAt(log, j)]

\* index of the X store of iteration (i, j)
XIndex(i, j, xLength, yLength) == i + j * xLength

\* index of the Y store of iteration (i, j)
YIndex(i, j, xLength, yLength) == i + j * xLength + yLength * xLength

\* value of the X store of iteration (i, j)
\* the X line repeated during the Y retrace instead of held at its start
XSample_NoHold(xWaveform, i, j, linesPerFrame, offsetXinDegree) ==
    Add(xWaveform[i], offsetXinDegree)

XSample(xWaveform, i, j, linesPerFrame, offsetXinDegree) ==
    IF j < linesPerFrame THEN Add(xWaveform[i], offsetXinDegree)
                         ELSE Add(xWaveform[0], offsetXinDegree)

\* the stores of the loop nest  for j < yLength: for i < xLength, two per
\* iteration: the X store, then the Y store
GenerateGalvoWaveformFrameStores(p, ub) ==
    LET xLength == p.undershoot + p.width + X_RETRACE_LEN
        yLength == p.height + Y_RETRACE_LEN
        xWaveform == XWaveform(p, ub)
        yWaveform == YWaveform(p, ub)
        offsetXinDegree == OffsetInDegree(p.galvoOffsetX)
        offsetYinDegree == OffsetInDegree(p.galvoOffsetY)
    IN  [k \in 1..(2 * xLength * yLength) |->
           LET it == (k - 1) \div 2
               j == it \div xLength
               i == it % xLength
           IN  IF k % 2 = 1
               THEN <<XIndex(i, j, xLength, yLength),
                      XSample(xWaveform, i, j, p.height, offsetXinDegree)>>
               ELSE <<YIndex(i, j, xLength, yLength),
                      Add(yWaveform[j], offsetYinDegree)>>]

(***************************************************************************)
(* Inputs                                                                  *)
(***************************************************************************)
\* values of the double zoom: below 1, integral, fractional
ZoomValues == {<<1, 2>>, <<1, 1>>, <<3, 2>>, <<2, 1>>}

ResolutionValues == {2, 4}

RoiOffsetValues == {0, 1}

GalvoOffsetXValues == {<<0, 1>>, <<3, 2>>}

GalvoOffsetYValues == {<<0, 1>>, <<3, 1>>}

\* <<xOffset, yOffset, galvoOffsetX, galvoOffsetY>> of the records tried
OffsetValues == {<<0, 0, <<0, 1>>, <<0, 1>>>>,
                 <<1, 0, <<3, 2>>, <<0, 1>>>>,
                 <<0, 1, <<0, 1>>, <<3, 1>>>>}

\* struct WaveformParams
WaveformParams ==
    {p \in [width : 1..MaxWidth, height : 1..MaxHeight, resolution : ResolutionValues,
            zoom : ZoomValues, undershoot : 0..MaxUndershoot,
            xOffset : RoiOffsetValues, yOffset : RoiOffsetValues,
            galvoOffsetX : GalvoOffsetXValues, galvoOffsetY : GalvoOffsetYValues] :
        <<p.xOffset, p.yOffset, p.galvoOffsetX, p.galvoOffsetY>> \in OffsetValues}

\* what a uint32_t division by zero can yield when it does not trap
DivZeroQuotients == {0}

VoltageValues == {<<-1, 2>>, <<0, 1>>, <<1, 2>>, <<1, 1>>}

SlopeValues == {<<-1, 1>>, <<0, 1>>, <<1, 3>>}

\* arguments of a direct call of GenerateGalvoWaveform
AxisArgs ==
    [effectiveScanLen : 1..MaxScanLen, retraceLen : 0..MaxRetraceLen,
     undershootLen : 0..MaxUndershoot, scanStart : VoltageValues,
     scanEnd : VoltageValues]

\* arguments of a direct call of SplineInterpolate
SplineArgs ==
    [n : 1..MaxSplineLen, yFirst : VoltageValues, yLast : VoltageValues,
     slopeFirst : SlopeValues, slopeLast : SlopeValues]

NoAxisArgs == [effectiveScanLen |-> 2, retraceLen |-> 0, undershootLen |-> 0,
               scanStart |-> <<0, 1>>, scanEnd |-> <<0, 1>>]

NoSplineArgs == [n |-> 1, yFirst |-> <<0, 1>>, yLast |-> <<0, 1>>,
                 slopeFirst |-> <<0, 1>>, slopeLast |-> <<0, 1>>]

NoParams == [width |-> 1, height |-> 1, resolution |-> 2, zoom |-> <<1, 1>>,
             undershoot |-> 0, xOffset |-> 0, yOffset |-> 0,
             galvoOffsetX |-> <<0, 1>>, galvoOffsetY |-> <<0, 1>>]

(***************************************************************************)
(* The device layer calling the generators on one parameter record         *)
(***************************************************************************)
Init ==
    /\ parameters \in WaveformParams
    /\ lineClock = <<>>
    /\ lineClockFLIM = <<>>
    /\ frameClockFLIM = <<>>
    /\ xyWaveformFrame = <<>>
    /\ frameStatus = "idle"
    /\ axisArgs = NoAxisArgs
    /\ waveform = <<>>
    /\ splineArgs = NoSplineArgs
    /\ result = <<>>

GenerateLineClock ==
    /\ frameStatus # "trap"
    /\ lineClock' = GenerateLineClockStores(parameters)
    /\ UNCHANGED <<parameters, lineClockFLIM, frameClockFLIM, xyWaveformFrame,
                   frameStatus, axisArgs, waveform, splineArgs, result>>

GenerateFLIMLineClock ==
    /\ frameStatus # "trap"
    /\ lineClockFLIM' = GenerateFLIMLineClockStores(parameters)
    /\ UNCHANGED <<parameters, lineClock, frameClockFLIM, xyWaveformFrame,
                   frameStatus, axisArgs, waveform, splineArgs, result>>

GenerateFLIMFrameClock ==
    /\ frameStatus # "trap"
    /\ frameClockFLIM' = GenerateFLIMFrameClockStores(parameters)
    /\ UNCHANGED <<parameters, lineClock, lineClockFLIM, xyWaveformFrame,
                   frameStatus, axisArgs, waveform, splineArgs, result>>

\* The integer divisions pixelsPerLine / (zoom * resolution) and
\* linesPerFrame / (zoom * resolution) are undefined when the truncated zoom
\* is 0: the call either traps before any store or goes on with a quotient.
GenerateGalvoWaveformFrame ==
    /\ frameStatus # "trap"
    /\ \E trap \in BOOLEAN, ub \in DivZeroQuotients :
          IF ZoomTimesResolution(parameters) = 0 /\ trap
          THEN /\ frameStatus' = "trap"
               /\ UNCHANGED xyWaveformFrame
          ELSE /\ frameStatus' = "ok"
               /\ xyWaveformFrame' = GenerateGalvoWaveformFrameStores(parameters, ub)
    /\ UNCHANGED <<parameters, lineClock, lineClockFLIM, frameClockFLIM,
                   axisArgs, waveform, splineArgs, result>>

Next ==
    \/ GenerateLineClock
    \/ GenerateFLIMLineClock
    \/ GenerateFLIMFrameClock
    \/ GenerateGalvoWaveformFrame

Spec == Init /\ [][Next]_vars

(***************************************************************************)
(* Direct calls of GenerateGalvoWaveform                                   *)
(***************************************************************************)
InitAxis ==
    /\ parameters = NoParams
    /\ lineClock = <<>>
    /\ lineClockFLIM = <<>>
    /\ frameClockFLIM = <<>>
    /\ xyWaveformFrame = <<>>
    /\ frameStatus = "idle"
    /\ axisArgs \in AxisArgs
    /\ waveform = <<>>
    /\ splineArgs = NoSplineArgs
    /\ result = <<>>

GenerateGalvoWaveformCall ==
    /\ waveform' = GenerateGalvoWaveform(axisArgs.effectiveScanLen, axisArgs.retraceLen,
                                         axisArgs.undershootLen, axisArgs.scanStart,
                                         axisArgs.scanEnd)
    /\ UNCHANGED <<parameters, lineClock, lineClockFLIM, frameClockFLIM,
                   xyWaveformFrame, frameStatus, axisArgs, splineArgs, result>>

NextAxis == GenerateGalvoWaveformCall

SpecAxis == InitAxis /\ [][NextAxis]_vars

(***************************************************************************)
(* Direct calls of SplineInterpolate                                       *)
(***************************************************************************)
InitSpline ==
    /\ parameters = NoParams
    /\ lineClock = <<>>
    /\ lineClockFLIM = <<>>
    /\ frameClockFLIM = <<>>
    /\ xyWaveformFrame = <<>>
    /\ frameStatus = "idle"
    /\ axisArgs = NoAxisArgs
    /\ waveform = <<>>
    /\ splineArgs \in SplineArgs
    /\ result = <<>>

SplineInterpolateCall ==
    /\ result' = SplineInterpolate(splineArgs.n, splineArgs.yFirst, splineArgs.yLast,
                                   splineArgs.slopeFirst, splineArgs.slopeLast)
    /\ UNCHANGED <<parameters, lineClock, lineClockFLIM, frameClockFLIM,
                   xyWaveformFrame, frameStatus, axisArgs, waveform, splineArgs>>

NextSpline == SplineInterpolateCall

SpecSpline == InitSpline /\ [][NextSpline]_vars

(***************************************************************************)
(* Properties                                                              *)
(***************************************************************************)
\* C1 as stated: the size a size function reports is the number of samples
\* its generator stores, at the indices below that size; for
\* GenerateGalvoWaveformFrame the size is GetScannerWaveformSize.
C1_ReportedSizeIsStored ==
    /\ lineClock # <<>> =>
          Written(lineClock) = 0..(GetClockWaveformSize(parameters) - 1)
    /\ lineClockFLIM # <<>> =>
          Written(lineClockFLIM) = 0..(GetClockWaveformSize(parameters) - 1)
    /\ frameClockFLIM # <<>> =>
          Written(frameClockFLIM) = 0..(GetClockWaveformSize(parameters) - 1)
    /\ frameStatus = "ok" =>
          Written(xyWaveformFrame) = 0..(GetScannerWaveformSize(parameters) - 1)

\* C1 amended: each clock generator stores exactly GetClockWaveformSize
\* samples, at the indices below that size; GetScannerWaveformSize is the size
\* of one channel, and a call of GenerateGalvoWaveformFrame that returns has
\* stored exactly twice that many samples, at the indices below twice the
\* size; no index at or above twice the size is ever stored to.
C1_ClockSizeAndPerChannelScannerSize ==
    /\ lineClock # <<>> =>
          /\ Written(lineClock) = 0..(GetClockWaveformSize(parameters) - 1)
          /\ Len(lineClock) = GetClockWaveformSize(parameters)
    /\ lineClockFLIM # <<>> =>
          /\ Written(lineClockFLIM) = 0..(GetClockWaveformSize(parameters) - 1)
          /\ Len(lineClockFLIM) = GetClockWaveformSize(parameters)
    /\ frameClockFLIM # <<>> =>
          /\ Written(frameClockFLIM) = 0..(GetClockWaveformSize(parameters) - 1)
          /\ Len(frameClockFLIM) = GetClockWaveformSize(parameters)
    /\ frameStatus = "ok" =>
          /\ Written(xyWaveformFrame) = 0..(2 * GetScannerWaveformSize(parameters) - 1)
          /\ Len(xyWaveformFrame) = 2 * GetScannerWaveformSize(parameters)
    /\ \A idx \in Written(xyWaveformFrame) :
          idx < 2 * GetScannerWaveformSize(parameters)

C1_AllGeneratorsRan ==
    /\ lineClock # <<>>
    /\ lineClockFLIM # <<>>
    /\ frameClockFLIM # <<>>
    /\ frameStatus = "ok"
    /\ parameters.undershoot = 0
    /\ parameters.width > 1
    /\ parameters.height > 1

\* C5: on every line of the line clock the samples at in-line offsets
\* [undershoot, undershoot + width) are 1 and all others are 0, so a line has
\* exactly width high samples, the first at offset undershoot.
C5_LineClockDutyCycle ==
    lineClock # <<>> =>
        LET p == parameters
            lineLength == p.undershoot + p.width + X_RETRACE_LEN
        IN  \A j \in 0..(p.height - 1) :
               LET high == {i \in 0..(lineLength - 1) :
                               ValueAt(lineClock, i + j * lineLength) = 1}
                   low == {i \in 0..(lineLength - 1) :
                              ValueAt(lineClock, i + j * lineLength) = 0}
               IN  /\ high = p.undershoot..(p.undershoot + p.width - 1)
                   /\ low = (0..(lineLength - 1)) \ high
                   /\ Cardinality(high) = p.width
                   /\ \A i \in high : i >= p.undershoot

C5_LineClockWritten ==
    /\ lineClock # <<>>
    /\ parameters.undershoot > 0
    /\ parameters.width > 1
    /\ parameters.height > 1

\* C6: the line clock and the FLIM line clock of one parameter record are never
\* both 1 at an index; on every line the indices where one of them is 1 are
\* [undershoot, lineLength), and the FLIM line clock is 1 exactly on
\* [undershoot + width, lineLength).
C6_FLIMLineClockDisjoint ==
    (lineClock # <<>> /\ lineClockFLIM # <<>>) =>
        LET p == parameters
            lineLength == p.undershoot + p.width + X_RETRACE_LEN
        IN  \A j \in 0..(p.height - 1) :
               LET line == {i \in 0..(lineLength - 1) :
                               ValueAt(lineClock, i + j * lineLength) = 1}
                   flim == {i \in 0..(lineLength - 1) :
                               ValueAt(lineClockFLIM, i + j * lineLength) = 1}
               IN  /\ line \cap flim = {}
                   /\ line \cup flim = p.undershoot..(lineLength - 1)
                   /\ flim = (p.undershoot + p.width)..(lineLength - 1)
                   /\ \A i \in (0..(lineLength - 1)) \ flim :
                         ValueAt(lineClockFLIM, i + j * lineLength) = 0

C6_BothLineClocksWritten ==
    /\ lineClock # <<>>
    /\ lineClockFLIM # <<>>
    /\ parameters.undershoot > 0
    /\ parameters.height > 1

\* C7: the FLIM frame clock is 1 only on the last line, there exactly at the
\* in-line offsets above undershoot + width, and the last line is the one line
\* that holds a 1; every other sample is 0.
C7_FLIMFrameClockLastLine ==
    frameClockFLIM # <<>> =>
        LET p == parameters
            lineLength == p.undershoot + p.width + X_RETRACE_LEN
            highLines == {j \in 0..(p.height - 1) :
                             \E i \in 0..(lineLength - 1) :
                                 ValueAt(frameClockFLIM, i + j * lineLength) = 1}
        IN  /\ highLines = {p.height - 1}
            /\ \A j \in 0..(p.height - 1), i \in 0..(lineLength - 1) :
                  ValueAt(frameClockFLIM, i + j * lineLength) =
                      IF j = p.height - 1 /\ i > p.undershoot + p.width THEN 1 ELSE 0

C7_FrameClockWritten ==
    /\ frameClockFLIM # <<>>
    /\ parameters.height > 1
    /\ parameters.undershoot > 0

\* C2: under the invariants of the parameter record (width, height,
\* resolution, zoom > 0, undershoot >= 0) a call of GenerateGalvoWaveformFrame
\* returns success and every sample of the destination buffer is a
\* well-defined (finite) value.
C2_FrameAlwaysWellDefined ==
    frameStatus # "idle" =>
        /\ frameStatus = "ok"
        /\ \A k \in 1..Len(xyWaveformFrame) : IsFinite(xyWaveformFrame[k][2])

\* C3: in the buffer of a call of GenerateGalvoWaveformFrame that returned,
\* the sample at i + j*xLength is the offset-adjusted X waveform at i for
\* j < height and at 0 for j >= height, the sample at
\* i + j*xLength + yLength*xLength is the offset-adjusted Y waveform at j, and
\* every index of [0, 2*xLength*yLength) is stored to exactly once and no
\* other index is.
C3_FrameLayout ==
    frameStatus = "ok" =>
        LET p == parameters
            xLength == p.undershoot + p.width + X_RETRACE_LEN
            yLength == p.height + Y_RETRACE_LEN
        IN  /\ \E ub \in DivZeroQuotients :
                  LET xStart == RoiStart(p, p.xOffset)
                      xEnd == RoiEnd(p, p.xOffset, p.width, ub)
                      yStart == RoiStart(p, p.yOffset)
                      yEnd == RoiEnd(p, p.yOffset, p.height, ub)
                      x == GenerateGalvoWaveform(p.width, X_RETRACE_LEN, p.undershoot,
                                                 xStart, xEnd)
                      y == GenerateGalvoWaveform(p.height, Y_RETRACE_LEN, 0, yStart, yEnd)
                      xTrim == Div(D(TruncU32(p.galvoOffsetX)), D(3))
                      yTrim == Div(D(TruncU32(p.galvoOffsetY)), D(3))
                  IN  \A j \in 0..(yLength - 1), i \in 0..(xLength - 1) :
                         /\ ValueAt(xyWaveformFrame, i + j * xLength) =
                               Add(ValueAt(x, IF j < p.height THEN i ELSE 0), xTrim)
                         /\ ValueAt(xyWaveformFrame, i + j * xLength + yLength * xLength) =
                               Add(ValueAt(y, j), yTrim)
            /\ \A idx \in 0..(2 * xLength * yLength - 1) :
                  WriteCount(xyWaveformFrame, idx) = 1
            /\ Written(xyWaveformFrame) = 0..(2 * xLength * yLength - 1)

C3_FrameWritten ==
    /\ frameStatus = "ok"
    /\ parameters.width > 1
    /\ parameters.height > 1
    /\ parameters.undershoot > 0
    /\ TruncU32(parameters.zoom) > 0
    /\ parameters.galvoOffsetX # <<0, 1>>
    /\ ValueAt(xyWaveformFrame, 0) # ValueAt(xyWaveformFrame, 1)

\* C4: with the zoom as supplied (a real number), the active part of every X
\* line starts at xStart = (-0.5*resolution + xOffset) / (zoom*resolution), at
\* in-line index undershoot, and ends at xStart + width / (zoom*resolution),
\* at in-line index undershoot + width - 1, each plus the X trim; the Y
\* waveform runs likewise from yStart at row 0 to
\* yStart + height / (zoom*resolution) at row height - 1.  (Stated for
\* width > 1 and height > 1, where the ramps have a defined step.)
C4_ZoomAsSupplied ==
    (frameStatus = "ok" /\ parameters.width > 1 /\ parameters.height > 1) =>
        LET p == parameters
            xLength == p.undershoot + p.width + X_RETRACE_LEN
            yLength == p.height + Y_RETRACE_LEN
            zr == Mul(p.zoom, D(p.resolution))
            xStart == Div(Add(Mul(<<-1, 2>>, D(p.resolution)), D(p.xOffset)), zr)
            yStart == Div(Add(Mul(<<-1, 2>>, D(p.resolution)), D(p.yOffset)), zr)
            xEnd == Add(xStart, Div(D(p.width), zr))
            yEnd == Add(yStart, Div(D(p.height), zr))
            xTrim == Div(D(TruncU32(p.galvoOffsetX)), D(3))
            yTrim == Div(D(TruncU32(p.galvoOffsetY)), D(3))
        IN  /\ \A j \in 0..(p.height - 1) :
                  /\ ValueAt(xyWaveformFrame, p.undershoot + j * xLength) =
                        Add(xStart, xTrim)
                  /\ ValueAt(xyWaveformFrame, p.undershoot + p.width - 1 + j * xLength) =
                        Add(xEnd, xTrim)
            /\ ValueAt(xyWaveformFrame, yLength * xLength) = Add(yStart, yTrim)
            /\ ValueAt(xyWaveformFrame, (p.height - 1) * xLength + yLength * xLength) =
                  Add(yEnd, yTrim)

\* C8 as stated: with effectiveScanLen > 1 and retraceLen > 0, the difference
\* of consecutive samples across the ramp-to-retrace seam, and across the seam
\* from the last retrace sample to sample 0 of the next period, is the ramp's
\* step (scanEnd - scanStart) / (effectiveScanLen - 1).
C8_DiscreteSlopeAtSeams ==
    (waveform # <<>> /\ axisArgs.effectiveScanLen > 1 /\ axisArgs.retraceLen > 0) =>
        LET a == axisArgs
            linearLen == a.undershootLen + a.effectiveScanLen
            step == Div(Sub(a.scanEnd, a.scanStart), D(a.effectiveScanLen - 1))
        IN  /\ Sub(ValueAt(waveform, linearLen), ValueAt(waveform, linearLen - 1)) = step
            /\ Sub(ValueAt(waveform, 0), ValueAt(waveform, linearLen + a.retraceLen - 1)) = step

\* C8 amended: with effectiveScanLen > 1 and retraceLen > 0, the retrace
\* samples are the values at x = 0 .. retraceLen-1 of a cubic f whose
\* derivative f'(x) is the ramp's step at x = 0 and at x = retraceLen, with
\* f(0) = scanEnd and f(retraceLen) = sample 0 of the period; the first
\* retrace sample repeats the last ramp sample (the difference across the
\* ramp-to-retrace seam is 0, not the step).  For retraceLen >= 4 the cubic is
\* the one through the first four retrace samples.
C8_AnalyticSlopeAtSeams ==
    (waveform # <<>> /\ axisArgs.effectiveScanLen > 1 /\ axisArgs.retraceLen > 0) =>
        LET a == axisArgs
            n == a.retraceLen
            linearLen == a.undershootLen + a.effectiveScanLen
            step == Div(Sub(a.scanEnd, a.scanStart), D(a.effectiveScanLen - 1))
            c == SplineCoeffs(n, a.scanEnd, ValueAt(waveform, 0), step, step)
            \* f'(x) = 3*c0*x^2 + 2*c1*x + c2
            slope(x) == Add(Add(Mul(Mul(D(3), c[1]), D(x * x)),
                                Mul(Mul(D(2), c[2]), D(x))), c[3])
        IN  /\ ValueAt(waveform, linearLen) = a.scanEnd
            /\ ValueAt(waveform, linearLen - 1) = a.scanEnd
            /\ \A x \in 0..(n - 1) : ValueAt(waveform, linearLen + x) = SplineValue(c, x)
            /\ slope(0) = step
            /\ slope(n) = step
            /\ SplineValue(c, n) = ValueAt(waveform, 0)
            /\ n >= 4 =>
                  LET f0 == ValueAt(waveform, linearLen)
                      f1 == ValueAt(waveform, linearLen + 1)
                      f2 == ValueAt(waveform, linearLen + 2)
                      f3 == ValueAt(waveform, linearLen + 3)
                      \* forward differences of the four samples
                      d1 == Sub(f1, f0)
                      d2 == Add(Sub(f2, Mul(D(2), f1)), f0)
                      d3 == Sub(Add(Sub(f3, Mul(D(3), f2)), Mul(D(3), f1)), f0)
                      \* Newton form of the cubic through them, and its derivative
                      f(t) == Add(Add(Add(f0, Mul(d1, D(t))),
                                      Mul(d2, <<t * (t - 1), 2>>)),
                                  Mul(d3, Norm(t * (t - 1) * (t - 2), 6)))
                      df(t) == Add(Add(d1, Mul(d2, Norm(2 * t - 1, 2))),
                                   Mul(d3, Norm(3 * t * t - 6 * t + 2, 6)))
                  IN  /\ df(0) = step
                      /\ df(n) = step
                      /\ f(n) = ValueAt(waveform, 0)

C8_RetraceWritten ==
    /\ waveform # <<>>
    /\ axisArgs.effectiveScanLen > 2
    /\ axisArgs.retraceLen >= 4
    /\ axisArgs.undershootLen > 0
    /\ axisArgs.scanEnd # axisArgs.scanStart

\* C9: with effectiveScanLen > 1 and retraceLen = 0, waveform[undershootLen]
\* is scanStart, waveform[undershootLen + effectiveScanLen - 1] is scanEnd,
\* consecutive samples differ by (scanEnd - scanStart) / (effectiveScanLen - 1),
\* and exactly the undershootLen + effectiveScanLen samples are stored.
C9_RampLinearity ==
    (waveform # <<>> /\ axisArgs.effectiveScanLen > 1 /\ axisArgs.retraceLen = 0) =>
        LET a == axisArgs
            linearLen == a.undershootLen + a.effectiveScanLen
            step == Div(Sub(a.scanEnd, a.scanStart), D(a.effectiveScanLen - 1))
        IN  /\ ValueAt(waveform, a.undershootLen) = a.scanStart
            /\ ValueAt(waveform, a.undershootLen + a.effectiveScanLen - 1) = a.scanEnd
            /\ \A i \in 0..(linearLen - 2) :
                  Sub(ValueAt(waveform, i + 1), ValueAt(waveform, i)) = step
            /\ Written(waveform) = 0..(linearLen - 1)
            /\ Len(waveform) = linearLen

C9_RampWritten ==
    /\ waveform # <<>>
    /\ axisArgs.effectiveScanLen > 2
    /\ axisArgs.retraceLen = 0
    /\ axisArgs.undershootLen > 0
    /\ axisArgs.scanEnd # axisArgs.scanStart

\* C10: for n > 1 the cubic f(x) = c0*x^3 + c1*x^2 + c2*x + c3 of
\* SplineInterpolate has c3 = yFirst and c2 = slopeFirst, f(0) = yFirst =
\* result[0] and f(n) = yLast; exactly result[0..n-1] are stored, each the
\* value f(x).  For n >= 4 the cubic through the first four samples takes the
\* value yLast at x = n.
C10_SplineBoundary ==
    (result # <<>> /\ splineArgs.n > 1) =>
        LET a == splineArgs
            n == a.n
            c == SplineCoeffs(n, a.yFirst, a.yLast, a.slopeFirst, a.slopeLast)
        IN  /\ c[4] = a.yFirst
            /\ c[3] = a.slopeFirst
            /\ SplineValue(c, 0) = a.yFirst
            /\ ValueAt(result, 0) = a.yFirst
            /\ SplineValue(c, n) = a.yLast
            /\ \A x \in 0..(n - 1) : ValueAt(result, x) = SplineValue(c, x)
            /\ Written(result) = 0..(n - 1)
            /\ Len(result) = n
            /\ n >= 4 =>
                  LET f0 == ValueAt(result, 0)
                      f1 == ValueAt(result, 1)
                      f2 == ValueAt(result, 2)
                      f3 == ValueAt(result, 3)
                      d1 == Sub(f1, f0)
                      d2 == Add(Sub(f2, Mul(D(2), f1)), f0)
                      d3 == Sub(Add(Sub(f3, Mul(D(3), f2)), Mul(D(3), f1)), f0)
                  IN  Add(Add(Add(f0, Mul(d1, D(n))),
                              Mul(d2, <<n * (n - 1), 2>>)),
                          Mul(d3, Norm(n * (n - 1) * (n - 2), 6))) = a.yLast

C10_SplineWritten ==
    /\ result # <<>>
    /\ splineArgs.n >= 4
    /\ splineArgs.yFirst # splineArgs.yLast
    /\ splineArgs.slopeFirst # splineArgs.slopeLast

====
